---- MODULE Spec2Model ----
(***************************************************************************)
(* Model of the three tools of the pr-agent MCP server                     *)
(*   src/pr-server-custom-workflow/build-mcp-server/starter/server.py      *)
(* analyze_file_changes, get_pr_templates and suggest_template.            *)
(*                                                                         *)
(* A Python str is a sequence of one-character strings.  In the texts of   *)
(* analyze_file_changes a literal piece of an f-string that holds no       *)
(* newline, tab or blank at its ends is kept as one element, which leaves  *)
(* split, strip and join unchanged; the texts suggest_template searches    *)
(* are spelled out character by character.                                 *)
(***************************************************************************)
EXTENDS Integers, Sequences, FiniteSets, TLC

VARIABLES
    pc,               \* position of the running analyze_file_changes call
    base_branch,      \* argument of analyze_file_changes
    include_diff,     \* argument of analyze_file_changes
    max_diff_lines,   \* argument of analyze_file_changes
    issued,           \* the subprocess.run calls made so far, in order
    diff_stdout,      \* stdout of git diff, as captured
    diff_output,      \* local diff_output (after truncation)
    total_lines,      \* local total_lines
    stats_stdout,     \* stdout of git diff --stat
    files_stdout,     \* stdout of git diff --name-status
    response,         \* the document analyze_file_changes returns
    fs,               \* TEMPLATES_DIR on disk
    templates_result, \* the document get_pr_templates returns
    changes_summary,  \* argument of suggest_template
    change_type,      \* argument of suggest_template
    best_match,       \* locals template_type, score of suggest_template
    suggestion_result \* the document suggest_template returns

vars == <<pc, base_branch, include_diff, max_diff_lines, issued, diff_stdout,
          diff_output, total_lines, stats_stdout, files_stdout, response, fs,
          templates_result, changes_summary, change_type, best_match,
          suggestion_result>>

analyzeVars == <<pc, base_branch, include_diff, max_diff_lines, issued,
                 diff_stdout, diff_output, total_lines, stats_stdout,
                 files_stdout, response>>

registryVars == <<fs, templates_result>>

suggestVars == <<changes_summary, change_type, best_match, suggestion_result>>

-----------------------------------------------------------------------------
(* Bounds of the model *)

MaxDiffLen == 3      \* characters of git diff output
MaxLines == 2        \* largest max_diff_lines tried
MaxNsLines == 2      \* lines of git diff --name-status output

-----------------------------------------------------------------------------
(* Python str and list operations *)

NL == "\n"
TAB == "\t"
SP == " "

SeqsUpTo(S, n) == UNION {[1..k -> S] : k \in 0..n}

\* str.split(sep) for a one-character separator: always at least one piece
RECURSIVE Split(_, _)
Split(s, sep) ==
    IF \A i \in 1..Len(s) : s[i] # sep
    THEN <<s>>
    ELSE LET i == CHOOSE k \in 1..Len(s) :
                      s[k] = sep /\ \A j \in 1..(k - 1) : s[j] # sep
         IN  <<SubSeq(s, 1, i - 1)>> \o Split(SubSeq(s, i + 1, Len(s)), sep)

\* sep.join(parts)
RECURSIVE Join(_, _)
Join(parts, sep) ==
    IF Len(parts) = 0 THEN <<>>
    ELSE IF Len(parts) = 1 THEN parts[1]
    ELSE parts[1] \o sep \o Join(Tail(parts), sep)

\* lst[:n], negative n counting from the end
SliceTo(lst, n) ==
    IF n >= 0
    THEN SubSeq(lst, 1, IF n < Len(lst) THEN n ELSE Len(lst))
    ELSE SubSeq(lst, 1, Len(lst) + n)

IsSpace(c) == c \in {SP, TAB, NL}

\* str.strip(): drop leading and trailing whitespace
Strip(s) ==
    IF \A i \in 1..Len(s) : IsSpace(s[i])
    THEN <<>>
    ELSE LET lo == CHOOSE i \in 1..Len(s) :
                       ~IsSpace(s[i]) /\ \A j \in 1..(i - 1) : IsSpace(s[j])
             hi == CHOOSE i \in 1..Len(s) :
                       ~IsSpace(s[i]) /\ \A j \in (i + 1)..Len(s) : IsSpace(s[j])
         IN  SubSeq(s, lo, hi)

-----------------------------------------------------------------------------
(* analyze_file_changes *)

\* the three argument vectors handed to subprocess.run
DiffCmd(base) == <<<<"git">>, <<"diff">>, base \o <<"...HEAD">>>>
StatsCmd(base) == <<<<"git">>, <<"diff">>, <<"--stat">>, base \o <<"...HEAD">>>>
FilesCmd(base) == <<<<"git">>, <<"diff">>, <<"--name-status">>, base \o <<"...HEAD">>>>

\* a check that lets exit status 1 through
Failed_OnlyAboveOne(returncode) == returncode > 1

\* lines 60, 85, 100: a command failed when it exited non-zero
Failed(returncode) == returncode # 0

\* one completed subprocess.run call
Completed(cmd, rc, err) == [cmd |-> cmd, returncode |-> rc, stderr |-> err]

CommandFailed(label, stderr, cmd) ==
    [error |-> <<label>> \o stderr, command |-> Join(cmd, <<SP>>)]

Raised(msg) == [error |-> msg]

TruncationNotice(n, total) ==
    <<NL, NL, "... Output truncated. Showing ", ToString(n), " of ",
      ToString(total), " lines ...">>

\* a truncation that keeps one line more than asked
Truncate_OneMore(stdout, n) ==
    LET diff_lines == Split(stdout, NL)
        total == Len(diff_lines)
    IN  IF total > n
        THEN Join(SliceTo(diff_lines, n + 1), <<NL>>)
             \o TruncationNotice(n, total)
        ELSE stdout

\* lines 66-74: the diff text kept for the response
Truncate(stdout, n) ==
    LET diff_lines == Split(stdout, NL)
        total == Len(diff_lines)
    IN  IF total > n
        THEN Join(SliceTo(diff_lines, n), <<NL>>) \o TruncationNotice(n, total)
        ELSE stdout

\* a parse that takes the fields the other way round
RECURSIVE ParseLines_Swapped(_)
ParseLines_Swapped(lines) ==
    IF Len(lines) = 0 THEN <<>>
    ELSE LET line == Head(lines)
             parts == Split(line, TAB)
         IN  IF line = <<>> THEN ParseLines_Swapped(Tail(lines))
             ELSE IF Len(parts) >= 2
                  THEN <<[status |-> parts[2], filename |-> parts[1]]>>
                       \o ParseLines_Swapped(Tail(lines))
                  ELSE ParseLines_Swapped(Tail(lines))

\* lines 106-115: the entries parsed from the name-status listing
RECURSIVE ParseLines(_)
ParseLines(lines) ==
    IF Len(lines) = 0 THEN <<>>
    ELSE LET line == Head(lines)
             parts == Split(line, TAB)
         IN  IF line = <<>> THEN ParseLines(Tail(lines))
             ELSE IF Len(parts) >= 2
                  THEN <<[status |-> parts[1], filename |-> parts[2]]>>
                       \o ParseLines(Tail(lines))
                  ELSE ParseLines(Tail(lines))

ParseChangedFiles(stdout) == ParseLines(Split(Strip(stdout), NL))

DiffPlaceholder == <<"Diff not included (set include_diff=true to see it)">>

BuildResponse(stats, total, changed_files, diff, incl) ==
    [stats |-> stats,
     total_diff_lines |-> total,
     files_changed |-> changed_files,
     diff |-> IF incl THEN diff ELSE DiffPlaceholder]

\* what the outside world can hand back
Branches == {<<"main">>}
DiffOutputs == SeqsUpTo({"a", NL}, MaxDiffLen)
StderrTexts == {<<"fatal: bad revision">>}
StatsOutputs == {<<>>, <<" 1 file changed">>}
NsLines == {<<"M", TAB, "f">>, <<"A", TAB, "g">>, <<"M">>, <<>>,
            <<"M", TAB, "f", SP>>, <<TAB, "f">>, <<"M", TAB>>,
            <<"R", TAB, "f", TAB, "g">>}
NsOutputs ==
    LET bodies == {Join(ls, <<NL>>) : ls \in SeqsUpTo(NsLines, MaxNsLines)}
    IN  bodies \cup {b \o <<NL>> : b \in bodies}

Pending == [pending |-> TRUE]

InitRegistryIdle ==
    /\ fs = [kind |-> "missing", files |-> <<>>]
    /\ templates_result = Pending

InitSuggestIdle ==
    /\ changes_summary = <<>>
    /\ change_type = <<>>
    /\ best_match = Pending
    /\ suggestion_result = Pending

InitAnalyze ==
    /\ pc = "roots"
    /\ base_branch \in Branches
    /\ include_diff \in BOOLEAN
    /\ max_diff_lines \in (-1)..MaxLines
    /\ issued = <<>>
    /\ diff_stdout = <<>>
    /\ diff_output = <<>>
    /\ total_lines = 0
    /\ stats_stdout = <<>>
    /\ files_stdout = <<>>
    /\ response = Pending
    /\ InitRegistryIdle
    /\ InitSuggestIdle

\* lines 46-49: the working directory comes from the session's roots
ListRoots ==
    /\ pc = "roots"
    /\ \E ok \in BOOLEAN :
         IF ok
         THEN pc' = "diff" /\ response' = response
         ELSE pc' = "done" /\ response' = Raised(<<"list index out of range">>)
    /\ UNCHANGED <<base_branch, include_diff, max_diff_lines, issued,
                   diff_stdout, diff_output, total_lines, stats_stdout,
                   files_stdout>>
    /\ UNCHANGED <<registryVars, suggestVars>>

\* lines 51-74: git diff, then the truncation
RunDiff ==
    /\ pc = "diff"
    /\ \E rc \in {0, 1}, out \in DiffOutputs, err \in StderrTexts :
       /\ issued' = Append(issued, Completed(DiffCmd(base_branch), rc, err))
       /\
         IF Failed(rc)
         THEN /\ pc' = "done"
              /\ response' = CommandFailed("Git diff command failed: ", err,
                                           DiffCmd(base_branch))
              /\ UNCHANGED <<diff_stdout, diff_output, total_lines>>
         ELSE /\ pc' = "stats"
              /\ diff_stdout' = out
              /\ total_lines' = Len(Split(out, NL))
              /\ diff_output' = Truncate(out, max_diff_lines)
              /\ response' = response
    /\ UNCHANGED <<base_branch, include_diff, max_diff_lines, stats_stdout,
                   files_stdout>>
    /\ UNCHANGED <<registryVars, suggestVars>>

\* lines 76-89: git diff --stat
RunStats ==
    /\ pc = "stats"
    /\ \E rc \in {0, 1}, out \in StatsOutputs, err \in StderrTexts :
       /\ issued' = Append(issued, Completed(StatsCmd(base_branch), rc, err))
       /\
         IF Failed(rc)
         THEN /\ pc' = "done"
              /\ response' = CommandFailed("Git diff --stat command failed: ",
                                           err, StatsCmd(base_branch))
              /\ stats_stdout' = stats_stdout
         ELSE /\ pc' = "files"
              /\ stats_stdout' = out
              /\ response' = response
    /\ UNCHANGED <<base_branch, include_diff, max_diff_lines, diff_stdout,
                   diff_output, total_lines, files_stdout>>
    /\ UNCHANGED <<registryVars, suggestVars>>

\* lines 91-125: git diff --name-status, the parse and the response
RunNameStatus ==
    /\ pc = "files"
    /\ \E rc \in {0, 1}, out \in NsOutputs, err \in StderrTexts :
       /\ issued' = Append(issued, Completed(FilesCmd(base_branch), rc, err))
       /\
         IF Failed(rc)
         THEN /\ response' = CommandFailed(
                      "Git diff --name-status command failed: ", err,
                      FilesCmd(base_branch))
              /\ files_stdout' = files_stdout
         ELSE /\ files_stdout' = out
              /\ response' = BuildResponse(stats_stdout, total_lines,
                                           ParseChangedFiles(out), diff_output,
                                           include_diff)
    /\ pc' = "done"
    /\ UNCHANGED <<base_branch, include_diff, max_diff_lines, diff_stdout,
                   diff_output, total_lines, stats_stdout>>
    /\ UNCHANGED <<registryVars, suggestVars>>

NextAnalyze == ListRoots \/ RunDiff \/ RunStats \/ RunNameStatus

SpecAnalyze == InitAnalyze /\ [][NextAnalyze]_vars

-----------------------------------------------------------------------------
(* Properties of analyze_file_changes *)

IsInfix(w, s) ==
    \E i \in 1..(Len(s) - Len(w) + 1) : SubSeq(s, i, i + Len(w) - 1) = w

Succeeded == pc = "done" /\ "files_changed" \in DOMAIN response

ReturnedLines == Split(response.diff, NL)
OriginalLines == Split(diff_stdout, NL)

NoticeLine(n, total) ==
    <<"... Output truncated. Showing ", ToString(n), " of ", ToString(total),
      " lines ...">>

\* C1 as stated: a diff of M lines under a cap N (here N >= 1) comes back
\* verbatim when M <= N, and otherwise as N + 1 lines, the first N original
\* lines and then the notice naming N and M.
C1_AsStated ==
    (Succeeded /\ include_diff /\ max_diff_lines >= 1) =>
        LET N == max_diff_lines
            M == Len(OriginalLines)
        IN  IF M <= N
            THEN response.diff = diff_stdout
            ELSE /\ Len(ReturnedLines) = N + 1
                 /\ \A i \in 1..N : ReturnedLines[i] = OriginalLines[i]
                 /\ ReturnedLines[N + 1] = NoticeLine(N, M)

\* C1 amended: a diff of M lines under a cap N >= 0 comes back verbatim when
\* M <= N; when M > N the first N original lines are followed by an empty
\* line and then the notice naming N and M, N + 2 lines in all for N >= 1
\* and 3 lines for N = 0, and total_diff_lines reports M.
C1_Truncation ==
    (Succeeded /\ include_diff /\ max_diff_lines >= 0) =>
        LET N == max_diff_lines
            M == Len(OriginalLines)
            K == Len(ReturnedLines)
        IN  /\ response.total_diff_lines = M
            /\ IF M <= N
               THEN response.diff = diff_stdout
               ELSE /\ K = (IF N = 0 THEN 3 ELSE N + 2)
                    /\ \A i \in 1..N : ReturnedLines[i] = OriginalLines[i]
                    /\ \A i \in (N + 1)..(K - 1) : ReturnedLines[i] = <<>>
                    /\ ReturnedLines[K] = NoticeLine(N, M)

C1_Witness ==
    /\ Succeeded
    /\ include_diff
    /\ max_diff_lines >= 1
    /\ Len(OriginalLines) > max_diff_lines
    /\ Len(ReturnedLines) = max_diff_lines + 2

\* C2 as stated: every files_changed entry has a status of two or more
\* characters and a non-empty filename.
C2_AsStated ==
    Succeeded =>
        \A i \in 1..Len(response.files_changed) :
            /\ Len(response.files_changed[i].status) >= 2
            /\ response.files_changed[i].filename # <<>>

\* C2 amended: every files_changed entry has a status and a filename that
\* hold no tab and no newline and that stand in the name-status output as
\* status, tab, filename; the status can be a single character and either
\* field can be empty.
C2_EntryFields ==
    Succeeded =>
        \A i \in 1..Len(response.files_changed) :
            LET e == response.files_changed[i]
            IN  /\ \A k \in 1..Len(e.status) : e.status[k] \notin {TAB, NL}
                /\ \A k \in 1..Len(e.filename) : e.filename[k] \notin {TAB, NL}
                /\ IsInfix(e.status \o <<TAB>> \o e.filename, files_stdout)

C2_Witness ==
    /\ Succeeded
    /\ \E i \in 1..Len(response.files_changed) :
           /\ Len(response.files_changed[i].status) = 1
           /\ response.files_changed[i].filename # <<>>

ExpectedCmds == <<DiffCmd(base_branch), StatsCmd(base_branch),
                  FilesCmd(base_branch)>>

FailureLabels == <<"Git diff command failed: ",
                   "Git diff --stat command failed: ",
                   "Git diff --name-status command failed: ">>

C6_State ==
    /\ Len(issued) <= 3
    /\ \A k \in 1..Len(issued) :
         /\ issued[k].cmd = ExpectedCmds[k]
         /\ issued[k].returncode # 0 =>
              /\ k = Len(issued)
              /\ pc = "done"
              /\ DOMAIN response = {"error", "command"}
              /\ response.error = <<FailureLabels[k]>> \o issued[k].stderr
              /\ response.command = Join(issued[k].cmd, <<SP>>)

\* C6: the commands run in the order diff, diff --stat, diff --name-status;
\* a command that exits non-zero is the last one run, the call is over, the
\* response holds exactly that command's error text and command text, and
\* nothing is run or changed afterwards.
C6_AbortOnFailure ==
    /\ []C6_State
    /\ [][pc = "done" => (issued' = issued /\ response' = response)]_vars

C6_Witness ==
    /\ pc = "done"
    /\ Len(issued) = 2
    /\ issued[2].returncode # 0
    /\ "command" \in DOMAIN response

OutputLines == Split(files_stdout, NL)

FieldsOf(line) == Split(line, TAB)

WellFormed(line) ==
    /\ Len(FieldsOf(line)) = 2
    /\ FieldsOf(line)[1] # <<>>
    /\ FieldsOf(line)[2] # <<>>

RECURSIVE EntriesOf(_)
EntriesOf(lines) ==
    IF Len(lines) = 0 THEN <<>>
    ELSE IF WellFormed(Head(lines))
         THEN <<[status |-> FieldsOf(Head(lines))[1],
                 filename |-> FieldsOf(Head(lines))[2]]>>
              \o EntriesOf(Tail(lines))
         ELSE EntriesOf(Tail(lines))

\* C8: when every line of the name-status output is a two-field line, a
\* single-field line or an empty line, files_changed holds one entry per
\* two-field line, with that line's two fields, in output order, and the
\* call does not end in an error.
C8_ParsingTotal ==
    (/\ pc = "done"
     /\ Len(issued) = 3
     /\ issued[3].returncode = 0
     /\ \A i \in 1..Len(OutputLines) :
            WellFormed(OutputLines[i]) \/ Len(FieldsOf(OutputLines[i])) = 1)
    => /\ "error" \notin DOMAIN response
       /\ response.files_changed = EntriesOf(OutputLines)

-----------------------------------------------------------------------------
(* get_pr_templates *)

MaxFiles == 2        \* template files in TEMPLATES_DIR

\* a dict in insertion order: a sequence of key/value pairs with distinct keys
DictHas(d, k) == \E i \in 1..Len(d) : d[i].key = k

DictGet(d, k) == d[CHOOSE i \in 1..Len(d) : d[i].key = k].value

\* d[k] = v: an existing key keeps its place and takes the new value
DictSet(d, k, v) ==
    IF DictHas(d, k)
    THEN [i \in 1..Len(d) |-> IF d[i].key = k THEN [key |-> k, value |-> v]
                                              ELSE d[i]]
    ELSE Append(d, [key |-> k, value |-> v])

\* str.rfind("."), 0 when there is no dot (positions count from 1)
LastDot(name) ==
    IF \A i \in 1..Len(name) : name[i] # "."
    THEN 0
    ELSE CHOOSE i \in 1..Len(name) :
             name[i] = "." /\ \A j \in (i + 1)..Len(name) : name[j] # "."

\* line 147, PurePath.stem: the name without its last suffix
Stem(name) ==
    IF 1 < LastDot(name) /\ LastDot(name) < Len(name)
    THEN SubSeq(name, 1, LastDot(name) - 1)
    ELSE name

TemplatesDir == <<"/", "t">>

PathOf(name) == TemplatesDir \o <<"/">> \o name

ReadError == <<"[Errno 13] Permission denied">>

\* lines 154-158: the entry of a template that was read
TemplateEntry(file) ==
    [name |-> Stem(file.name), path |-> PathOf(file.name),
     content |-> file.content]

\* lines 162-165: the entry of a template that could not be read
FailedEntry(file) ==
    [name |-> file.name, error |-> <<"Failed to read template: ">> \o ReadError]

\* lines 144-165: the loop over TEMPLATES_DIR.glob("*.md")
RECURSIVE ReadTemplates(_, _)
ReadTemplates(files, templates) ==
    IF Len(files) = 0 THEN templates
    ELSE LET file == Head(files)
         IN  ReadTemplates(Tail(files),
                 IF file.readable
                 THEN DictSet(templates, Stem(file.name), TemplateEntry(file))
                 ELSE DictSet(templates, file.name, FailedEntry(file)))

\* lines 132-175: the document get_pr_templates returns for a directory
GetPrTemplatesOf(dir) ==
    IF dir.kind # "dir"
    THEN [error |-> <<"Templates directory not found at ">> \o TemplatesDir]
    ELSE LET templates == ReadTemplates(dir.files, <<>>)
         IN  [templates |-> templates, count |-> Len(templates),
              templates_dir |-> TemplatesDir]

\* the names glob("*.md") can find
FileNames ==
    {<<"b", "u", "g", ".", "m", "d">>,
     <<"f", "e", "a", "t", "u", "r", "e", ".", "m", "d">>,
     <<"t", "e", "s", "t", ".", "m", "d">>,
     <<"b", "u", "g", ".", "m", "d", ".", "m", "d">>}


FileOnDisk(name, readable) ==
    [name |-> name, readable |-> readable, content |-> <<"# template ">> \o name]

\* the listings of the directory: distinct names, in any order
Listings(n) ==
    {fl \in SeqsUpTo({FileOnDisk(nm, r) : nm \in FileNames, r \in BOOLEAN}, n) :
        \A i, j \in 1..Len(fl) : i # j => fl[i].name # fl[j].name}

Directories(n) ==
    {[kind |-> "missing", files |-> <<>>], [kind |-> "file", files |-> <<>>]}
    \cup {[kind |-> "dir", files |-> fl] : fl \in Listings(n)}

-----------------------------------------------------------------------------
(* suggest_template *)

MaxWords == 2        \* words of a generated changes_summary

None == <<"None">>

UpperCase == <<"A", "B", "C", "D", "E", "F", "G", "H", "I", "J", "K", "L", "M", "N", "O", "P", "Q", "R", "S", "T", "U", "V", "W", "X", "Y", "Z">>
LowerCase == <<"a", "b", "c", "d", "e", "f", "g", "h", "i", "j", "k", "l", "m", "n", "o", "p", "q", "r", "s", "t", "u", "v", "w", "x", "y", "z">>

\* str.lower()
Lower(s) ==
    [i \in 1..Len(s) |->
        IF \E k \in 1..26 : UpperCase[k] = s[i]
        THEN LowerCase[CHOOSE k \in 1..26 : UpperCase[k] = s[i]]
        ELSE s[i]]

\* w in s, for strings
Contains(s, w) ==
    \E i \in 1..(Len(s) - Len(w) + 1) : SubSeq(s, i, i + Len(w) - 1) = w

T_bug == <<"b", "u", "g">>
T_feature == <<"f", "e", "a", "t", "u", "r", "e">>
T_docs == <<"d", "o", "c", "s">>
T_refactor == <<"r", "e", "f", "a", "c", "t", "o", "r">>
T_test == <<"t", "e", "s", "t">>
T_security == <<"s", "e", "c", "u", "r", "i", "t", "y">>
T_performance == <<"p", "e", "r", "f", "o", "r", "m", "a", "n", "c", "e">>

\* lines 211-228: common_types
CommonTypes == <<
    [key |-> <<"b", "u", "g">>, value |-> T_bug],
    [key |-> <<"f", "i", "x">>, value |-> T_bug],
    [key |-> <<"b", "u", "g", "f", "i", "x">>, value |-> T_bug],
    [key |-> <<"f", "e", "a", "t", "u", "r", "e">>, value |-> T_feature],
    [key |-> <<"f", "e", "a", "t">>, value |-> T_feature],
    [key |-> <<"e", "n", "h", "a", "n", "c", "e", "m", "e", "n", "t">>, value |-> T_feature],
    [key |-> <<"d", "o", "c", "s">>, value |-> T_docs],
    [key |-> <<"d", "o", "c", "u", "m", "e", "n", "t", "a", "t", "i", "o", "n">>, value |-> T_docs],
    [key |-> <<"r", "e", "f", "a", "c", "t", "o", "r">>, value |-> T_refactor],
    [key |-> <<"t", "e", "s", "t">>, value |-> T_test],
    [key |-> <<"t", "e", "s", "t", "s">>, value |-> T_test],
    [key |-> <<"t", "e", "s", "t", "i", "n", "g">>, value |-> T_test],
    [key |-> <<"s", "e", "c", "u", "r", "i", "t", "y">>, value |-> T_security],
    [key |-> <<"p", "e", "r", "f", "o", "r", "m", "a", "n", "c", "e">>, value |-> T_performance],
    [key |-> <<"p", "e", "r", "f">>, value |-> T_performance],
    [key |-> <<"o", "p", "t", "i", "m", "i", "z", "a", "t", "i", "o", "n">>, value |-> T_performance]
>>

\* lines 247-255: keywords, in declaration order
Keywords == <<
    [key |-> T_bug, value |-> <<
        <<"b", "u", "g">>,
        <<"f", "i", "x">>,
        <<"i", "s", "s", "u", "e">>,
        <<"p", "r", "o", "b", "l", "e", "m">>,
        <<"e", "r", "r", "o", "r">>,
        <<"c", "r", "a", "s", "h">>,
        <<"r", "e", "s", "o", "l", "v", "e">>>>],
    [key |-> T_feature, value |-> <<
        <<"f", "e", "a", "t", "u", "r", "e">>,
        <<"a", "d", "d">>,
        <<"n", "e", "w">>,
        <<"i", "m", "p", "l", "e", "m", "e", "n", "t">>,
        <<"e", "n", "h", "a", "n", "c", "e", "m", "e", "n", "t">>,
        <<"f", "u", "n", "c", "t", "i", "o", "n", "a", "l", "i", "t", "y">>>>],
    [key |-> T_docs, value |-> <<
        <<"d", "o", "c", "s">>,
        <<"d", "o", "c", "u", "m", "e", "n", "t", "a", "t", "i", "o", "n">>,
        <<"r", "e", "a", "d", "m", "e">>,
        <<"c", "o", "m", "m", "e", "n", "t">>,
        <<"g", "u", "i", "d", "e">>,
        <<"t", "u", "t", "o", "r", "i", "a", "l">>>>],
    [key |-> T_refactor, value |-> <<
        <<"r", "e", "f", "a", "c", "t", "o", "r">>,
        <<"c", "l", "e", "a", "n">>,
        <<"i", "m", "p", "r", "o", "v", "e">>,
        <<"s", "i", "m", "p", "l", "i", "f", "y">>,
        <<"r", "e", "s", "t", "r", "u", "c", "t", "u", "r", "e">>,
        <<"r", "e", "d", "e", "s", "i", "g", "n">>>>],
    [key |-> T_test, value |-> <<
        <<"t", "e", "s", "t">>,
        <<"c", "o", "v", "e", "r", "a", "g", "e">>,
        <<"u", "n", "i", "t", " ", "t", "e", "s", "t">>,
        <<"i", "n", "t", "e", "g", "r", "a", "t", "i", "o", "n", " ", "t", "e", "s", "t">>,
        <<"e", "2", "e">>,
        <<"t", "e", "s", "t", "i", "n", "g">>>>],
    [key |-> T_security, value |-> <<
        <<"s", "e", "c", "u", "r", "i", "t", "y">>,
        <<"v", "u", "l", "n", "e", "r", "a", "b", "i", "l", "i", "t", "y">>,
        <<"s", "e", "c", "u", "r", "e">>,
        <<"p", "r", "o", "t", "e", "c", "t">>,
        <<"e", "n", "c", "r", "y", "p", "t">>,
        <<"a", "u", "t", "h">>>>],
    [key |-> T_performance, value |-> <<
        <<"p", "e", "r", "f", "o", "r", "m", "a", "n", "c", "e">>,
        <<"o", "p", "t", "i", "m", "i", "z", "e">>,
        <<"s", "p", "e", "e", "d">>,
        <<"e", "f", "f", "i", "c", "i", "e", "n", "t">>,
        <<"f", "a", "s", "t">>,
        <<"s", "l", "o", "w">>>>]
>>

\* dict.get(key) on common_types
CommonType(key) ==
    IF DictHas(CommonTypes, key) THEN DictGet(CommonTypes, key) ELSE None

\* a normalisation that forgets to trim
NormalizedChangeType_NoStrip(ct) == Lower(ct)

\* line 208: change_type.lower().strip()
NormalizedChangeType(ct) == Strip(Lower(ct))

\* a count check that never finds the registry empty
NoTemplates_Never(data) == FALSE

\* line 199: templates_data.get("count", 0) == 0
NoTemplates(data) == data.count = 0

\* lines 230-241: the direct mapping, <<>> when it has nothing usable
DirectStage(templates, ct) ==
    LET suggested_template == CommonType(NormalizedChangeType(ct))
    IN  IF suggested_template # None /\ suggested_template # <<>>
           /\ DictHas(templates, suggested_template)
        THEN <<[suggestion |-> suggested_template,
                template |-> DictGet(templates, suggested_template),
                confidence |-> "high",
                reason |-> <<"Direct match for change type '">> \o ct
                           \o <<"'">>]>>
        ELSE <<>>

\* lines 261-264: how many keywords of category i the summary holds
KeywordCount(i, summary_lower) ==
    Cardinality({k \in 1..Len(Keywords[i].value) :
                    Contains(summary_lower, Keywords[i].value[k])})

\* lines 257-264: the scores of the seven categories, in declaration order
Scores(summary_lower) ==
    <<KeywordCount(1, summary_lower), KeywordCount(2, summary_lower),
      KeywordCount(3, summary_lower), KeywordCount(4, summary_lower),
      KeywordCount(5, summary_lower), KeywordCount(6, summary_lower),
      KeywordCount(7, summary_lower)>>

\* a maximum that keeps the last of several equal scores
BestMatch_Last(scores) ==
    CHOOSE i \in 1..Len(Keywords) :
        /\ \A j \in 1..Len(Keywords) : scores[j] <= scores[i]
        /\ \A j \in (i + 1)..Len(Keywords) : scores[j] < scores[i]

\* line 267: max(scores.items(), key=...), the first of the largest scores
BestMatch(scores) ==
    CHOOSE i \in 1..Len(Keywords) :
        /\ \A j \in 1..Len(Keywords) : scores[j] <= scores[i]
        /\ \A j \in 1..(i - 1) : scores[j] < scores[i]

\* a confidence that is medium from two matches on
Confidence_FromTwo(score) == IF score >= 2 THEN "medium" ELSE "low"

\* line 276
Confidence(score) == IF score > 2 THEN "medium" ELSE "low"

KeywordResult(templates, template_type, score) ==
    [suggestion |-> template_type,
     template |-> DictGet(templates, template_type),
     confidence |-> Confidence(score),
     reason |-> <<"Based on ", ToString(score),
                  " keyword matches in the changes summary">>]

\* lines 270-278: the answer of the keyword stage for the category at
\* position best, <<>> when it has nothing usable
KeywordAnswer(templates, scores, best) ==
    IF scores[best] > 0 /\ DictHas(templates, Keywords[best].key)
    THEN <<KeywordResult(templates, Keywords[best].key, scores[best])>>
    ELSE <<>>

\* a choice that falls back to the best category that has a template
KeywordChoice_Ranked(templates, scores) ==
    LET usable == {i \in 1..Len(Keywords) :
                      scores[i] > 0 /\ DictHas(templates, Keywords[i].key)}
    IN  IF usable = {} THEN <<>>
        ELSE KeywordAnswer(templates, scores,
                 CHOOSE i \in usable :
                     /\ \A j \in usable : scores[j] <= scores[i]
                     /\ \A j \in usable : j < i => scores[j] < scores[i])

\* lines 266-278: the best category is tried, and no other
KeywordChoice(templates, scores) ==
    KeywordAnswer(templates, scores, BestMatch(scores))

\* lines 257-278: the keyword scoring, <<>> when it has nothing usable
KeywordStage(templates, summary) ==
    CHOOSE answer \in {KeywordChoice(templates, scores) :
                          scores \in {Scores(Lower(summary))}} : TRUE

\* lines 280-302: the default, and what an empty dict makes of next(iter())
DefaultStage(templates) ==
    IF DictHas(templates, T_feature)
    THEN [suggestion |-> T_feature,
          template |-> DictGet(templates, T_feature),
          confidence |-> "low",
          reason |-> <<"No strong match found, defaulting to feature template">>]
    ELSE IF Len(templates) = 0
         THEN [error |-> <<>>, suggestion |-> None]
         ELSE [suggestion |-> templates[1].key,
               template |-> templates[1].value,
               confidence |-> "low",
               reason |-> <<"No match found, using first available template">>]

\* the stages in their order: the first that has an answer gives it
FirstAnswer(direct, keyword, default) ==
    IF direct # <<>> THEN direct[1]
    ELSE IF keyword # <<>> THEN keyword[1]
    ELSE default

\* lines 186-302: the document suggest_template returns.  templates_data is
\* the registry document after json.dumps and json.loads, which keep its
\* keys, their order and its values
SuggestFor(templates_data, summary, ct) ==
    IF "error" \in DOMAIN templates_data
    THEN [error |-> <<"Failed to get templates: ">> \o templates_data.error,
          suggestion |-> None]
    ELSE IF NoTemplates(templates_data)
    THEN [error |-> <<"No templates available">>, suggestion |-> None]
    ELSE FirstAnswer(DirectStage(templates_data.templates, ct),
                     KeywordStage(templates_data.templates, summary),
                     DefaultStage(templates_data.templates))

LocalsOf(scores, best) ==
    [template_type |-> Keywords[best].key, score |-> scores[best]]

BestOf(scores) ==
    CHOOSE locals \in {LocalsOf(scores, best) : best \in {BestMatch(scores)}} :
        TRUE

\* the locals template_type and score, once line 268 has run
LocalsAfter(templates_data, summary, ct) ==
    IF "error" \in DOMAIN templates_data THEN Pending
    ELSE IF NoTemplates(templates_data) THEN Pending
    ELSE IF DirectStage(templates_data.templates, ct) # <<>> THEN Pending
    ELSE CHOOSE locals \in {BestOf(scores) :
                               scores \in {Scores(Lower(summary))}} : TRUE

ChangeTypes ==
    {<<"f", "i", "x">>, <<" ", "F", "i", "x", " ">>, <<"u", "n", "k", "n", "o", "w", "n">>, <<"f", "e", "a", "t">>, <<"d", "o", "c", "s">>, <<>>}

Vocabulary ==
    {<<"F", "i", "x">>, <<"a", "d", "d">>, <<"u", "n", "i", "t">>,
     <<"t", "e", "s", "t", "i", "n", "g">>}

Scenario == 
    <<"f", "i", "x", "e", "d", " ", "a", " ", "c", "r", "a", "s", "h",
     " ", "i", "n", " ", "t", "h", "e", " ", "p", "a", "r", "s", "e", "r">>

Summaries ==
    {Join(ws, <<SP>>) : ws \in SeqsUpTo(Vocabulary, MaxWords)} \cup {Scenario}

-----------------------------------------------------------------------------
(* The specifications of the registry and of the recommender *)

InitAnalyzeIdle ==
    /\ pc = "idle"
    /\ base_branch = <<>>
    /\ include_diff = FALSE
    /\ max_diff_lines = 0
    /\ issued = <<>>
    /\ diff_stdout = <<>>
    /\ diff_output = <<>>
    /\ total_lines = 0
    /\ stats_stdout = <<>>
    /\ files_stdout = <<>>
    /\ response = Pending

InitTemplates ==
    /\ InitAnalyzeIdle
    /\ InitSuggestIdle
    /\ fs \in Directories(MaxFiles)
    /\ templates_result = Pending

\* a call of get_pr_templates
GetPrTemplates ==
    /\ "pending" \in DOMAIN templates_result
    /\ templates_result' = GetPrTemplatesOf(fs)
    /\ UNCHANGED <<fs, analyzeVars, suggestVars>>

NextTemplates == GetPrTemplates

SpecTemplates == InitTemplates /\ [][NextTemplates]_vars

InitSuggest ==
    /\ InitAnalyzeIdle
    /\ fs \in Directories(MaxFiles)
    /\ templates_result = Pending
    /\ changes_summary \in Summaries
    /\ change_type \in ChangeTypes
    /\ best_match = Pending
    /\ suggestion_result = Pending

\* a call of suggest_template, the registry query of line 188 included
SuggestTemplate ==
    /\ "pending" \in DOMAIN suggestion_result
    /\ templates_result' = GetPrTemplatesOf(fs)
    /\ suggestion_result' = SuggestFor(templates_result', changes_summary,
                                       change_type)
    /\ best_match' = LocalsAfter(templates_result', changes_summary,
                                 change_type)
    /\ UNCHANGED <<fs, changes_summary, change_type, analyzeVars>>

NextSuggest == SuggestTemplate

SpecSuggest == InitSuggest /\ [][NextSuggest]_vars

-----------------------------------------------------------------------------
(* Properties of get_pr_templates *)

Returned(doc) == "pending" \notin DOMAIN doc

\* C7: with the templates directory in place, the result has a templates
\* mapping and no error; every file that cannot be read stands in it under
\* its full filename with an error message and no content, every file that
\* can be read stands in it under its base name with its content, and count
\* is the number of entries.
C7_PartialFailure ==
    (Returned(templates_result) /\ fs.kind = "dir") =>
        /\ DOMAIN templates_result = {"templates", "count", "templates_dir"}
        /\ templates_result.count = Len(templates_result.templates)
        /\ \A i \in 1..Len(fs.files) :
             LET file == fs.files[i]
                 templates == templates_result.templates
             IN  IF file.readable
                 THEN /\ DictHas(templates, Stem(file.name))
                      /\ "content" \in DOMAIN DictGet(templates, Stem(file.name))
                      /\ DictGet(templates, Stem(file.name)).content
                           = file.content
                 ELSE /\ DictHas(templates, file.name)
                      /\ "error" \in DOMAIN DictGet(templates, file.name)
                      /\ "content" \notin DOMAIN DictGet(templates, file.name)

-----------------------------------------------------------------------------
(* Properties of suggest_template *)

Answered == Returned(suggestion_result)

Snapshot == templates_result.templates

HasSnapshot == Answered /\ "templates" \in DOMAIN templates_result

ReachedKeywords == Answered /\ "template_type" \in DOMAIN best_match

\* the keyword counts of the summary, one for each category
CountsOf(summary) == Scores(Lower(summary))

CategoryOf(name) == CHOOSE i \in 1..Len(Keywords) : Keywords[i].key = name

KeywordReason(score) ==
    <<"Based on ", ToString(score), " keyword matches in the changes summary">>

GenericReasons ==
    {<<"No strong match found, defaulting to feature template">>,
     <<"No match found, using first available template">>}

\* C3: when change_type, trimmed and lowercased, is a key of the synonym
\* table and its canonical name is a key of the registry snapshot, the
\* answer is that template with confidence high, whatever the summary is.
C3_DirectMappingWins ==
    HasSnapshot =>
        \A i \in 1..Len(CommonTypes) :
            (/\ CommonTypes[i].key = Strip(Lower(change_type))
             /\ DictHas(Snapshot, CommonTypes[i].value))
            => /\ DOMAIN suggestion_result
                    = {"suggestion", "template", "confidence", "reason"}
               /\ suggestion_result.suggestion = CommonTypes[i].value
               /\ suggestion_result.template
                    = DictGet(Snapshot, CommonTypes[i].value)
               /\ suggestion_result.confidence = "high"

C3_Witness ==
    /\ HasSnapshot
    /\ change_type = <<" ", "F", "i", "x", " ">>
    /\ changes_summary = <<"u", "n", "i", "t", " ", "t", "e", "s", "t", "i", "n", "g">>
    /\ DictHas(Snapshot, T_test)
    /\ suggestion_result.suggestion = T_bug
    /\ suggestion_result.confidence = "high"

\* C4: the category the keyword stage selects has the highest keyword
\* count, and every category declared before it has a strictly lower one.
C4_FirstOfHighest ==
    ReachedKeywords =>
        \A counts \in {CountsOf(changes_summary)} :
            \E b \in 1..Len(Keywords) :
                /\ Keywords[b].key = best_match.template_type
                /\ best_match.score = counts[b]
                /\ \A j \in 1..Len(Keywords) : counts[j] <= counts[b]
                /\ \A j \in 1..(b - 1) : counts[j] < counts[b]

C4_Witness ==
    /\ ReachedKeywords
    /\ best_match.score > 0
    /\ \A counts \in {CountsOf(changes_summary)} :
           Cardinality({j \in 1..Len(Keywords) :
                           counts[j] = best_match.score}) >= 2

\* C5: the answer is an error, with a null suggestion, exactly when the
\* registry query failed or the snapshot has no entry, the latter with the
\* error "No templates available"; with a non-empty snapshot the answer has
\* no error and names a template of the snapshot.
C5_ErrorOnlyWithoutTemplates ==
    Answered =>
        LET queryFailed == fs.kind # "dir"
            empty == fs.kind = "dir" /\ fs.files = <<>>
        IN  /\ ("error" \in DOMAIN suggestion_result) <=> (queryFailed \/ empty)
            /\ "error" \in DOMAIN suggestion_result =>
                   suggestion_result.suggestion = None
            /\ queryFailed =>
                   suggestion_result.error
                     = <<"Failed to get templates: ">> \o templates_result.error
            /\ empty => suggestion_result.error = <<"No templates available">>
            /\ ~(queryFailed \/ empty) =>
                   /\ suggestion_result.suggestion # None
                   /\ DictHas(Snapshot, suggestion_result.suggestion)

C5_Witness ==
    /\ Answered
    /\ fs.kind = "dir"
    /\ fs.files = <<>>
    /\ suggestion_result.error = <<"No templates available">>
    /\ suggestion_result.suggestion = None

FromKeywords ==
    /\ Answered
    /\ "reason" \in DOMAIN suggestion_result
    /\ suggestion_result.reason[1] = "Based on "

ScenarioFiles == {FileOnDisk(<<"b", "u", "g", ".", "m", "d">>, TRUE), FileOnDisk(<<"f", "e", "a", "t", "u", "r", "e", ".", "m", "d">>, TRUE)}

InScenario ==
    /\ Answered
    /\ fs.kind = "dir"
    /\ Len(fs.files) = 2
    /\ {fs.files[1], fs.files[2]} = ScenarioFiles
    /\ changes_summary = Scenario
    /\ change_type = <<"u", "n", "k", "n", "o", "w", "n">>

\* C9: an answer of the keyword stage names the selected category, its
\* score is the number of that category's keywords held by the lowercased
\* summary, the reason states that score, and the confidence is medium when
\* the score is above 2 and low otherwise; with templates bug and feature,
\* the summary "fixed a crash in the parser" and change type "unknown" the
\* answer is bug with 2 matches and confidence low.
C9_KeywordConfidence ==
    /\ FromKeywords =>
         \A counts \in {CountsOf(changes_summary)} :
             LET c == counts[CategoryOf(suggestion_result.suggestion)]
             IN  /\ ReachedKeywords
                 /\ best_match.template_type = suggestion_result.suggestion
                 /\ best_match.score = c
                 /\ suggestion_result.reason = KeywordReason(c)
                 /\ suggestion_result.confidence
                      = (IF c > 2 THEN "medium" ELSE "low")
    /\ InScenario =>
         /\ suggestion_result.suggestion = T_bug
         /\ suggestion_result.reason = KeywordReason(2)
         /\ suggestion_result.confidence = "low"

C9_Witness ==
    /\ InScenario
    /\ FromKeywords
    /\ suggestion_result.suggestion = T_bug

\* C10: when the top-scoring category has no template in the snapshot the
\* answer is the default: the template feature when the snapshot has it,
\* otherwise the first entry of the snapshot, with confidence low and a
\* generic reason; an answer with a keyword reason is always the top-scoring
\* category.
C10_SingleShot ==
    /\ (ReachedKeywords /\ ~DictHas(Snapshot, best_match.template_type)) =>
         /\ suggestion_result.suggestion
              = (IF DictHas(Snapshot, T_feature) THEN T_feature
                 ELSE Snapshot[1].key)
         /\ suggestion_result.template
              = DictGet(Snapshot, suggestion_result.suggestion)
         /\ suggestion_result.confidence = "low"
         /\ suggestion_result.reason \in GenericReasons
    /\ FromKeywords =>
         /\ ReachedKeywords
         /\ suggestion_result.suggestion = best_match.template_type

C10_Witness ==
    /\ ReachedKeywords
    /\ ~DictHas(Snapshot, best_match.template_type)
    /\ ~DictHas(Snapshot, T_feature)
    /\ \A counts \in {CountsOf(changes_summary)} :
           \E j \in 1..Len(Keywords) :
               /\ counts[j] > 0
               /\ counts[j] < best_match.score
               /\ DictHas(Snapshot, Keywords[j].key)
    /\ suggestion_result.suggestion = Snapshot[1].key
    /\ suggestion_result.confidence = "low"

====
